---- MODULE Spec2Model ----
(***************************************************************************)
(* Model of streamlit_app.py: the Streamlit script that reads the          *)
(* shift_sales table, builds one feature row per location for the earliest *)
(* unobserved date of a city/shift, calls the inference UDF, clips the     *)
(* predictions and plots them.                                             *)
(*                                                                         *)
(* A nullable SQL value is modelled as a set: {} is NULL and {v} is the    *)
(* value v.  A SQL average is an exact fraction <<num, den>> in lowest     *)
(* terms, so that equal means are equal values.                            *)
(***************************************************************************)
EXTENDS Integers, Sequences, FiniteSets, TLC

\* ------------------------------------------------------------------ bounds
MaxDate == 3
MaxRows == 3
MaxTicks == 3

\* ------------------------------------------------------- program constants
\* @st.cache_resource(ttl=3600): lifetime of the cached connection, seconds
ttl == 3600

NULL == {}

Cities == {"A", "B"}
Shifts == {"AM", "PM"}
Locations == {"L1", "L2", "L3"}
Dates == 1..MaxDate
PredVals == {-3, 5}

\* ----------------------------------------------------- the warehouse table
\* Static attributes of a location, precomputed upstream in the table.
CityOf(l) == IF l = "L3" THEN "B" ELSE "A"
LatitudeOf(l) == CASE l = "L1" -> 41 [] l = "L2" -> 42 [] OTHER -> 51
LongitudeOf(l) == CASE l = "L1" -> 11 [] l = "L2" -> 12 [] OTHER -> 21
PopulationOf(c) == IF c = "A" THEN 100 ELSE 200
MonthOf(d) == 1 + (d \div 31)
DayOfWeekOf(d) == d % 7

\* The sales observed at a location on a shift of a date: every observation
\* is a different amount.
SalesOf(l, s, d) ==
    10 * d + (IF s = "AM" THEN 0 ELSE 5) + (CASE l = "L1" -> 1 [] l = "L2" -> 2 [] OTHER -> 3)

\* One row of frostbyte_tasty_bytes_dev.analytics.shift_sales.  The columns
\* latitude, longitude, city_population, month and day_of_week are functions
\* of the key (LatitudeOf, LongitudeOf, PopulationOf, MonthOf, DayOfWeekOf)
\* and are read through them.
ShiftSalesRecord(l, s, d, v) ==
    [location_id |-> l, city |-> CityOf(l), shift |-> s, date |-> d,
     shift_sales |-> v]

\* The keys (location_id, shift, date) of the table, numbered 0..NumKeys-1.
LocationSeq == <<"L1", "L2", "L3">>
ShiftSeq == <<"AM", "PM">>
NumKeys == Len(LocationSeq) * Len(ShiftSeq) * MaxDate

\* The row of key k: a placeholder (observed = FALSE) or a row of observed
\* sales.
RowOfKey(k, observed) ==
    LET l == LocationSeq[(k % Len(LocationSeq)) + 1]
        s == ShiftSeq[((k \div Len(LocationSeq)) % Len(ShiftSeq)) + 1]
        d == (k \div (Len(LocationSeq) * Len(ShiftSeq))) + 1
    IN  ShiftSalesRecord(l, s, d, IF observed THEN {SalesOf(l, s, d)} ELSE NULL)

\* The tables of at most MaxRows rows over the keys k..NumKeys-1 added to
\* the tables S over the keys before k: every key has at most one row.
RECURSIVE TablesFrom(_, _)
TablesFrom(k, S) ==
    IF k >= NumKeys THEN S
    ELSE TablesFrom(k + 1,
             S \cup {t \cup {RowOfKey(k, o)} :
                        t \in {u \in S : Cardinality(u) < MaxRows}, o \in BOOLEAN})

Tables == TablesFrom(0, {{}})

\* A small table: a location with observed sales and then a placeholder, a
\* second location of the same city with a placeholder only, observed sales of
\* the other shift, and a placeholder of another city.
ExampleTable ==
    {ShiftSalesRecord("L1", "AM", 1, {SalesOf("L1", "AM", 1)}),
     ShiftSalesRecord("L1", "AM", MaxDate, NULL),
     ShiftSalesRecord("L2", "AM", MaxDate, NULL),
     ShiftSalesRecord("L1", "PM", 1, {SalesOf("L1", "PM", 1)}),
     ShiftSalesRecord("L3", "PM", 1, NULL)}

\* --------------------------------------------------------------- arithmetic
RECURSIVE GCD(_, _)
GCD(a, b) == IF b = 0 THEN a ELSE GCD(b, a % b)

\* The fraction n/d (d > 0, n >= 0) in lowest terms.
Rat(n, d) == LET g == GCD(n, d) IN <<n \div g, d \div g>>

RECURSIVE SumSales(_)
SumSales(S) ==
    IF S = {} THEN 0
    ELSE LET r == CHOOSE x \in S : TRUE
         IN  (CHOOSE v \in r.shift_sales : TRUE) + SumSales(S \ {r})

\* ------------------------------------------------------ get_predictions body
\* Variant: the filter on the city is left out.
FilteredByShiftOnly(t, c, s) == {r \in t : r.shift = s}

\* .filter((F.col("shift") == shift) & (F.col("city") == city))
Filtered(t, c, s) == {r \in t : r.shift = s /\ r.city = c}

\* Window.partition_by("location_id", "shift")
Partition(r, df) ==
    {q \in df : q.location_id = r.location_id /\ q.shift = r.shift}

\* .order_by("date"): the partition as a sequence of ascending date
RECURSIVE OrderByDate(_)
OrderByDate(S) ==
    IF S = {} THEN <<>>
    ELSE LET m == CHOOSE r \in S : \A q \in S : r.date <= q.date
         IN  <<m>> \o OrderByDate(S \ {m})

RowNumber(r, seq) == CHOOSE i \in 1..Len(seq) : seq[i] = r

\* Variant: the frame ends at the current row (CURRENT_ROW).
RowsBetweenInclusive(seq, i) == {seq[j] : j \in 1..i}

\* .rows_between(Window.UNBOUNDED_PRECEDING, Window.CURRENT_ROW - 1):
\* the rows of the ordered partition before row i
RowsBetween(seq, i) == {seq[j] : j \in 1..(i - 1)}

\* The window frame of row r of df.
window_by_location_all_days(r, df) ==
    LET seq == OrderByDate(Partition(r, df))
    IN  RowsBetween(seq, RowNumber(r, seq))

\* F.avg("shift_sales") over a frame: NULLs are skipped, and the average of
\* no value is NULL.
Avg(frame) ==
    LET vals == {q \in frame : q.shift_sales # NULL}
    IN  IF vals = {} THEN NULL
        ELSE {Rat(SumSales(vals), Cardinality(vals))}

Extend(r, f, v) == [x \in (DOMAIN r) \cup {f} |-> IF x = f THEN v ELSE r[x]]

\* snowpark_df.with_column("avg_location_shift_sales", F.avg(..).over(..))
WithAvg(df) ==
    {Extend(r, "avg_location_shift_sales", Avg(window_by_location_all_days(r, df))) :
        r \in df}

MinDate(S) == CHOOSE d \in {r.date : r \in S} : \A r \in S : d <= r.date
MaxNullDate(S) == CHOOSE d \in {r.date : r \in S} : \A r \in S : d >= r.date

\* Variant: F.max("date") in place of F.min("date").
DateTomorrowLatest(df) ==
    LET nulls == {r \in df : r.shift_sales = NULL}
    IN  IF nulls = {} THEN NULL ELSE {MaxNullDate(nulls)}

\* snowpark_df.filter(F.col("shift_sales").is_null()).select(F.min("date"))
\*     .collect()[0][0]: the minimum of no row is NULL (None)
DateTomorrow(df) ==
    LET nulls == {r \in df : r.shift_sales = NULL}
    IN  IF nulls = {} THEN NULL ELSE {MinDate(nulls)}

\* Variant: F.col("date") >= date_tomorrow.
FilterFromTomorrow(df, dt) == {r \in df : dt # NULL /\ \E d \in dt : r.date >= d}

\* snowpark_df.filter(F.col("date") == date_tomorrow): a comparison with
\* NULL is not true of any row
FilterTomorrow(df, dt) == {r \in df : dt # NULL /\ {r.date} = dt}

\* Variant: no imputation.
FillnaNothing(df) == df

\* snowpark_df.fillna(value=0, subset=["avg_location_shift_sales"])
Fillna(df) ==
    {[r EXCEPT !.avg_location_shift_sales =
                   IF @ = NULL THEN {Rat(0, 1)} ELSE @] : r \in df}

\* Variant: PM encoded as 1.
EncodeSwapped(df) ==
    {[r EXCEPT !.shift = IF @ = "PM" THEN 1 ELSE 0] : r \in df}

\* snowpark_df.with_column("shift", F.iff(F.col("shift") == "AM", 1, 0))
Encode(df) ==
    {[r EXCEPT !.shift = IF @ = "AM" THEN 1 ELSE 0] : r \in df}

\* [F.col(c) for c in feature_cols]: the arguments of one call of the UDF
FeatureVector(r) ==
    [MONTH |-> MonthOf(r.date), DAY_OF_WEEK |-> DayOfWeekOf(r.date),
     LATITUDE |-> LatitudeOf(r.location_id),
     LONGITUDE |-> LongitudeOf(r.location_id),
     CITY_POPULATION |-> PopulationOf(r.city),
     AVG_LOCATION_SHIFT_SALES |-> r.avg_location_shift_sales, SHIFT |-> r.shift]

UdfCalls(df) ==
    {[location_id |-> r.location_id, args |-> FeatureVector(r)] : r \in df}

\* snowpark_df.select("location_id", "latitude", "longitude",
\*     "avg_location_shift_sales", call_udf(..).alias("predicted_shift_sales"))
\*     .to_pandas(); out gives the value the UDF returns for each row
SelectToPandas(df, out) ==
    {[LOCATION_ID |-> r.location_id, LATITUDE |-> LatitudeOf(r.location_id),
      LONGITUDE |-> LongitudeOf(r.location_id),
      AVG_LOCATION_SHIFT_SALES |-> r.avg_location_shift_sales,
      PREDICTED_SHIFT_SALES |-> out[r.location_id]] : r \in df}

\* Variant: no clipping.
ClipNothing(frame) == frame

\* predictions["PREDICTED_SHIFT_SALES"].clip(0, inplace=True)
Clip(frame) ==
    {[r EXCEPT !.PREDICTED_SHIFT_SALES = IF @ < 0 THEN 0 ELSE @] : r \in frame}

\* -------------------------------------------------------------------- state
VARIABLES
    table,          \* the rows of the shift_sales table
    city, shift,    \* the values of the selectbox and of the radio
    now,            \* the clock, in seconds
    session,        \* the time the cached Snowpark session was created
    cache,          \* st.cache_data of get_predictions: key -> NULL or {entry}
    snowpark_df,    \* get_predictions: snowpark_df after line 123
    date_tomorrow,  \* get_predictions: date_tomorrow
    features,       \* get_predictions: the calls of the UDF
    predictions,    \* the frame get_predictions returned
    plotted,        \* the frame handed to px.scatter_mapbox
    hit,            \* the last call of get_predictions was answered by the cache
    outcome         \* "idle", or "ok" once the Update handler has drawn the chart

vars == <<table, city, shift, now, session, cache, snowpark_df, date_tomorrow,
          features, predictions, plotted, hit, outcome>>

Keys == Cities \X Shifts

\* The locals of a script run in which the button was not pressed.
NoRun ==
    /\ snowpark_df = {}
    /\ date_tomorrow = NULL
    /\ features = {}
    /\ predictions = {}
    /\ plotted = {}
    /\ hit = FALSE
    /\ outcome = "idle"

\* The first run of the script: the widgets show their first option.
Init ==
    /\ table = ExampleTable
    /\ city = "A"
    /\ shift = "AM"
    /\ now = 0
    /\ session = 0
    /\ cache = [k \in Keys |-> NULL]
    /\ NoRun

\* The inputs of the pipeline drawn from the bounded tables and selectors.
InitPipeline ==
    /\ table \in Tables
    /\ city \in Cities
    /\ shift \in Shifts
    /\ now = 0
    /\ session = 0
    /\ cache = [k \in Keys |-> NULL]
    /\ NoRun

\* init_connection under @st.cache_resource(ttl=3600): every run of the
\* script gets the cached session, or a new one once the entry has expired.
init_connection == IF now - session >= ttl THEN now ELSE session

\* A run of the script in which the button is not pressed draws no chart.
Rerun ==
    /\ session' = init_connection
    /\ snowpark_df' = {}
    /\ date_tomorrow' = NULL
    /\ features' = {}
    /\ predictions' = {}
    /\ plotted' = {}
    /\ hit' = FALSE
    /\ outcome' = "idle"
    /\ UNCHANGED <<table, now, cache>>

SelectCity(c) ==
    /\ c # city
    /\ city' = c
    /\ shift' = shift
    /\ Rerun

SelectShift(s) ==
    /\ s # shift
    /\ shift' = s
    /\ city' = city
    /\ Rerun

Tick ==
    /\ now + (ttl \div 2) <= MaxTicks * (ttl \div 2)
    /\ now' = now + (ttl \div 2)
    /\ UNCHANGED <<table, city, shift, session, cache, snowpark_df,
                   date_tomorrow, features, predictions, plotted, hit, outcome>>

\* @st.cache_data def get_predictions(_session, city, shift): the entry of
\* the key (city, shift), whatever its age and whatever the session.
CacheLookup(c, s) == cache[<<c, s>>]

\* if st.button("Update"): the script runs with the button pressed.
Update ==
    /\ session' = init_connection
    /\ UNCHANGED <<table, city, shift, now>>
    /\ outcome' = "ok"
    /\ IF CacheLookup(city, shift) # NULL
       THEN /\ hit' = TRUE
            /\ predictions' = (CHOOSE e \in CacheLookup(city, shift) : TRUE).value
            /\ plotted' = Clip(predictions')
            /\ snowpark_df' = {}
            /\ date_tomorrow' = NULL
            /\ features' = {}
            /\ cache' = cache
       ELSE LET df1 == WithAvg(Filtered(table, city, shift))
                dt == DateTomorrow(df1)
                df4 == Encode(Fillna(FilterTomorrow(df1, dt)))
            IN  \E out \in [{r.location_id : r \in df4} -> PredVals] :
                    /\ hit' = FALSE
                    /\ snowpark_df' = df1
                    /\ date_tomorrow' = dt
                    /\ features' = UdfCalls(df4)
                    /\ predictions' = SelectToPandas(df4, out)
                    /\ plotted' = Clip(predictions')
                    /\ cache' = [cache EXCEPT ![<<city, shift>>] =
                                    {[value |-> predictions', at |-> now]}]

Next ==
    \/ \E c \in Cities : SelectCity(c)
    \/ \E s \in Shifts : SelectShift(s)
    \/ Tick
    \/ Update

NextPipeline == Update

Spec == Init /\ [][Next]_vars

SpecPipeline == InitPipeline /\ [][NextPipeline]_vars

\* ------------------------------------------------------------------ claims
\* The body of get_predictions ran in the last run of the script.
Executed == outcome = "ok" /\ ~hit

\* The records of the table of the selected city and shift, its placeholder
\* rows, and the earliest date of a placeholder row.
Selected == {r \in table : r.city = city /\ r.shift = shift}
Placeholders == {r \in Selected : r.shift_sales = NULL}
EarliestPlaceholder ==
    CHOOSE d \in {r.date : r \in Placeholders} : \A r \in Placeholders : d <= r.date

\* The observed records of location l of the selected city and shift with a
\* date strictly before d, and the mean of the sales of a set of records.
ObservedBefore(l, d) ==
    {q \in Selected : q.location_id = l /\ q.date < d /\ q.shift_sales # NULL}
Mean(S) == IF S = {} THEN NULL ELSE {Rat(SumSales(S), Cardinality(S))}

\* C1: for every record r of the city/shift-filtered table,
\* avg_location_shift_sales of r is the mean of shift_sales over the records
\* of the same (location_id, shift) with a date strictly earlier than r's: r's
\* own sales and the sales of records of an equal or later date are not in it.
C1_TrailingAverage ==
    Executed =>
        /\ {[location_id |-> r.location_id, shift |-> r.shift, date |-> r.date] :
               r \in snowpark_df}
           = {[location_id |-> r.location_id, shift |-> r.shift, date |-> r.date] :
               r \in Selected}
        /\ \A r \in snowpark_df :
              r.avg_location_shift_sales = Mean(ObservedBefore(r.location_id, r.date))

C1_Witness ==
    /\ Executed
    /\ \E r \in snowpark_df :
          /\ r.shift_sales # NULL
          /\ Cardinality(ObservedBefore(r.location_id, r.date)) >= 2
          /\ r.avg_location_shift_sales # NULL

\* C2: the target date is the minimum date among the records of the selected
\* city and shift whose shift_sales is null, whatever the clock and whatever
\* the records of other cities and of the other shift.
C2_TargetDate ==
    (Executed /\ Placeholders # {}) =>
        /\ \E r \in Placeholders : date_tomorrow = {r.date}
        /\ \A r \in Placeholders : \A d \in date_tomorrow : d <= r.date

C2_Witness ==
    /\ Executed
    /\ \E r, q \in Placeholders : r.date < q.date
    /\ \E x \in table :
          /\ x.shift_sales = NULL
          /\ x \notin Selected
          /\ \A d \in date_tomorrow : x.date < d
    /\ date_tomorrow # NULL

\* C3: when the selected city/shift has rows but no placeholder row, the
\* run does not complete successfully: it fails with NoTargetDateFound.
C3_NoTargetDateFound ==
    (Selected # {} /\ Placeholders = {}) => outcome # "ok"

\* C4: when the selected city has no row in the table, the run does not
\* complete successfully with an empty set of prediction rows: it fails with
\* EmptyCityResult.
C4_EmptyCityResult ==
    ({r \in table : r.city = city} = {}) => outcome # "ok"

\* C5: with a placeholder row for the selected city/shift, get_predictions
\* returns as many rows as the table has rows of that city and shift on the
\* target date, one per location_id, none of them with the raw shift_sales.
C5_RowCount ==
    (outcome = "ok" /\ Placeholders # {}) =>
        /\ Cardinality(predictions)
           = Cardinality({r \in Selected : r.date = EarliestPlaceholder})
        /\ \A p, q \in predictions : p.LOCATION_ID = q.LOCATION_ID => p = q
        /\ \A p \in predictions :
              DOMAIN p \cap {"shift_sales", "SHIFT_SALES"} = {}

C5_Witness ==
    /\ outcome = "ok"
    /\ Cardinality(predictions) >= 2
    /\ \E r \in Selected : r.date # EarliestPlaceholder

\* C6: every predicted_shift_sales handed to the map is non-negative: a model
\* output below 0 is replaced by 0, an output of 0 or more is unchanged.
C6_ClampedBeforePlot ==
    outcome = "ok" =>
        /\ \A p \in plotted : p.PREDICTED_SHIFT_SALES >= 0
        /\ {p.LOCATION_ID : p \in plotted} = {q.LOCATION_ID : q \in predictions}
        /\ \A q \in predictions : \E p \in plotted :
              /\ p.LOCATION_ID = q.LOCATION_ID
              /\ q.PREDICTED_SHIFT_SALES < 0 => p.PREDICTED_SHIFT_SALES = 0
              /\ q.PREDICTED_SHIFT_SALES >= 0 =>
                     p.PREDICTED_SHIFT_SALES = q.PREDICTED_SHIFT_SALES

C6_Witness ==
    /\ outcome = "ok"
    /\ \E q \in predictions : q.PREDICTED_SHIFT_SALES < 0
    /\ \E q \in predictions : q.PREDICTED_SHIFT_SALES > 0
    /\ \A p \in plotted : p.PREDICTED_SHIFT_SALES >= 0

\* C7: a request for (city, shift) is answered from the cache only if the
\* entry of that key was computed less than the time-to-live ago; an older
\* entry is not returned.
C7_CacheTtl ==
    hit => \A e \in cache[<<city, shift>>] : now - e.at < ttl

\* C8: every returned row has a defined avg_location_shift_sales: 0 when its
\* location has no strictly earlier observation in its group, and the mean of
\* the earlier observed sales otherwise.
C8_Imputed ==
    (outcome = "ok" /\ Placeholders # {}) =>
        \A p \in predictions :
            LET obs == ObservedBefore(p.LOCATION_ID, EarliestPlaceholder)
            IN  /\ p.AVG_LOCATION_SHIFT_SALES # NULL
                /\ obs = {} => p.AVG_LOCATION_SHIFT_SALES = {<<0, 1>>}
                /\ obs # {} => p.AVG_LOCATION_SHIFT_SALES = Mean(obs)

C8_Witness ==
    /\ outcome = "ok"
    /\ Placeholders # {}
    /\ \E p \in predictions :
          ObservedBefore(p.LOCATION_ID, EarliestPlaceholder) = {}
    /\ \E p \in predictions :
          /\ ObservedBefore(p.LOCATION_ID, EarliestPlaceholder) # {}
          /\ p.AVG_LOCATION_SHIFT_SALES # {<<0, 1>>}

\* C9: the SHIFT feature passed to the UDF is 1 in a run with selector AM
\* and 0 in a run with selector PM, and it is passed for the rows that the
\* filter and the target date select by the original AM/PM value.
C9_ShiftEncoding ==
    Executed =>
        /\ \A f \in features : f.args.SHIFT = (IF shift = "AM" THEN 1 ELSE 0)
        /\ {f.location_id : f \in features}
           = {r.location_id : r \in {x \in Selected : {x.date} = date_tomorrow}}

C9_Witness ==
    /\ Executed
    /\ shift = "PM"
    /\ \E f \in features : f.args.SHIFT = 0
    /\ \E r \in table : r.shift = "AM" /\ r.city = city /\ {r.date} = date_tomorrow

\* C10: every record inside the trailing-average window of a returned row
\* has observed (non-null) shift_sales: no placeholder row is in the window
\* of a row of the target date.
C10_WindowObserved ==
    Executed =>
        \A r \in snowpark_df :
            {r.date} = date_tomorrow =>
                \A q \in window_by_location_all_days(r, snowpark_df) :
                    q.shift_sales # NULL

C10_Witness ==
    /\ Executed
    /\ \E r \in snowpark_df :
          /\ {r.date} = date_tomorrow
          /\ window_by_location_all_days(r, snowpark_df) # {}
    /\ \E q \in Placeholders : \A d \in date_tomorrow : q.date > d

====
